---- MODULE Spec2Model ----
(***************************************************************************)
(* NumS: the application manager (nums/core/application_manager.py), the   *)
(* NumPy-style wrappers (nums/numpy/api.py) and the engine contracts the   *)
(* wrappers rely on (device grid, execution substrate, blocked reduction). *)
(***************************************************************************)
EXTENDS Integers, Sequences, FiniteSets, TLC

\* ------------------------------------------------------------------ bounds

\* Longest hook list _call_on_create the model builds.
MaxHooks == 2
\* Substrate sessions (system.init() calls) the model lets a run start.
MaxSessions == 2
\* Deepest chain of call_on_create calls made from inside a running hook.
MaxNest == 1

\* ------------------------------------------------------------ manager state

VARIABLES
    settings,          \* nums.core.settings: system_name, device_grid_name, cluster_shape
    _instance,         \* application_manager._instance (None, or the ArrayApplication)
    _call_on_create,   \* application_manager._call_on_create, the hook list
    pc,                \* "idle", or "hooks" while instance() runs its hook loop
    loop_i,            \* position of the hook loop of instance() (1-based)
    ncalls,            \* per list entry: invocations of the hook on the current instance
    hook_log,          \* the hook invocations since instance() last stored an
                       \* application, in order: the list entry, the argument
    hooks_at_create,   \* length of the hook list when that application was stored
    running,           \* sessions on which init() was called and shutdown() was not
    nsessions,         \* sessions started so far (their ids are 1..nsessions)
    chosen,            \* the settings create() read for the application instance() stored last
    settings_read,     \* whether the last step read the settings
    dispatch           \* the application the last dispatched operation ran on, and
                       \* whether the settings had been changed since it was created

mgr_vars == <<settings, _instance, _call_on_create, pc, loop_i, ncalls,
              hook_log, hooks_at_create,
              running, nsessions, chosen, settings_read, dispatch>>

\* The hook functions: f is registered by the caller, g by a running hook.
Funcs == {"f", "g"}
ByCaller == {"f"}
ByHook == {"g"}

SystemNames == {"serial", "ray", "ray-scheduler", "dask", "dask-scheduler"}
DeviceGridNames == {"cyclic", "packed"}

\* Values a caller may store in the settings module, recognised or not.
Settings(system_name, device_grid_name, cluster_shape) ==
    [system_name |-> system_name, device_grid_name |-> device_grid_name,
     cluster_shape |-> cluster_shape]

DefaultSettings == Settings("serial", "cyclic", <<1, 1>>)

SettingsValues ==
    {DefaultSettings,
     Settings("ray", "packed", <<2, 1>>),
     Settings("unknown", "cyclic", <<1, 1>>),
     Settings("dask", "unknown", <<2, 1>>)}

\* _instance = None
None == [id |-> 0, system |-> "None", device_grid |-> "None", cluster_shape |-> <<>>]

is_initialized == _instance # None

\* instance() that constructs on every call.
must_create_always(inst) == TRUE

\* instance(), line 53: construct only when no instance is stored.
must_create(inst) == inst = None

\* ------------------------------------------------------------------ create()

\* create(): the outcome for the settings s when _instance is inst and the new
\* session would get the id sid.  exc is what create() raises ("none" when it
\* returns), inited whether system.init() was called, read whether the settings
\* were read, app the ArrayApplication it returns.
\* create() that takes an unrecognized name as the default: no check of the
\* system name or of the device grid name.
create_unchecked(s, inst, sid) ==
    IF inst # None
    THEN [exc |-> "create() called more than once.", inited |-> FALSE,
          read |-> FALSE, app |-> None]
    ELSE [exc |-> "none", inited |-> TRUE, read |-> TRUE,
          app |-> [id |-> sid, system |-> s.system_name,
                   device_grid |-> s.device_grid_name,
                   cluster_shape |-> s.cluster_shape]]

create(s, inst, sid) ==
    IF inst # None
    THEN [exc |-> "create() called more than once.", inited |-> FALSE,
          read |-> FALSE, app |-> None]
    ELSE IF s.system_name \notin SystemNames
    THEN [exc |-> "Unexpected system name", inited |-> FALSE,
          read |-> TRUE, app |-> None]
    ELSE IF s.device_grid_name \notin DeviceGridNames
    THEN [exc |-> "Unexpected device grid name", inited |-> TRUE,
          read |-> TRUE, app |-> None]
    ELSE [exc |-> "none", inited |-> TRUE, read |-> TRUE,
          app |-> [id |-> sid, system |-> s.system_name,
                   device_grid |-> s.device_grid_name,
                   cluster_shape |-> s.cluster_shape]]

\* ------------------------------------------------------------------- hooks

\* What a hook does when it is invoked: it registers the functions of chain,
\* each from inside the one before it (call_on_create called by a running
\* hook), and the innermost of them raises when raises is TRUE.
RECURSIVE SeqsUpTo(_, _)
SeqsUpTo(S, n) ==
    IF n = 0 THEN {<<>>}
    ELSE LET shorter == SeqsUpTo(S, n - 1)
         IN  shorter \cup {Append(q, x) : q \in shorter, x \in S}

Behaviours == [chain : SeqsUpTo(ByHook, MaxNest), raises : BOOLEAN]

Zeros(n) == [k \in 1..n |-> 0]
Ones(n) == [k \in 1..n |-> 1]

\* func(_instance) for the list entry idx, the application being initialized:
\* the entry is invoked once; every call_on_create(g) made inside appends g and,
\* is_initialized() being true, invokes g at once (call_on_create, lines 41-43).
\* invoked lists the entries in the order their invocations begin.
InvokeHook(list, calls, idx, b) ==
    [list |-> list \o b.chain,
     calls |-> [calls EXCEPT ![idx] = @ + 1] \o Ones(Len(b.chain)),
     invoked |-> <<idx>> \o [k \in 1..Len(b.chain) |-> Len(list) + k],
     raised |-> b.raises]

\* The invocations func(inst) of the entries idxs, as log records.
Invocations(idxs, inst) == [k \in DOMAIN idxs |-> [entry |-> idxs[k], arg |-> inst.id]]

\* call_on_create(func): always append; invoke at once when initialized.
call_on_create(list, calls, inited, func, b) ==
    IF inited
    THEN InvokeHook(Append(list, func), Append(calls, 0), Len(list) + 1, b)
    ELSE [list |-> Append(list, func), calls |-> Append(calls, 0), invoked |-> <<>>,
          raised |-> FALSE]

\* ------------------------------------------------------- wrappers (api.py)

VARIABLES
    api_call,          \* the wrapper call: the function and its arguments
    api_trace          \* what the call did, in order: the calls it made, then
                       \* the exception it raised or the value it returned

\* Largest axis length of an array handed to split.
MaxDim == 4
\* Largest block size of an array handed to concatenate.
MaxBlock == 3
\* Most arrays handed to one concatenate call.
MaxArrays == 3

\* One step of a wrapper: ev is "instance" (_instance()), "app" (an operation
\* of the application object), "method" (a BlockArray method), "getitem"
\* (ary[...]), "local" (a NumPy / utility call made in the caller's process),
\* "raise" or "return"; name is the callee (or the exception class); arg its
\* relevant arguments.
Ev(e, n, a) == [ev |-> e, name |-> n, arg |-> a]
InstanceCall == Ev("instance", "_instance", <<>>)
App(op, a) == Ev("app", op, a)
Raise(x) == <<Ev("raise", x, <<>>)>>
\* An exception raised inside the callee `origin` and not caught.
RaiseFrom(origin) == <<Ev("raise", "Exception", <<origin>>)>>
Return(what, a) == <<Ev("return", what, a)>>

\* Python's floor-mod and floor-division for any non-zero divisor.
PyMod(a, b) == IF b > 0 THEN a % b ELSE -((-a) % (-b))
PyFloorDiv(a, b) == IF b > 0 THEN a \div b ELSE (-a) \div (-b)

\* seq[i] with Python's indexing (0-based, negative from the end).
PyIndex(seq, i) == IF i < 0 THEN seq[Len(seq) + i + 1] ELSE seq[i + 1]
PySetItem(seq, i, v) ==
    IF i < 0 THEN [seq EXCEPT ![Len(seq) + i + 1] = v] ELSE [seq EXCEPT ![i + 1] = v]

\* A slice bound: None, or an integer.
NoneBound == [none |-> TRUE, v |-> 0]
IntBound(i) == [none |-> FALSE, v |-> i]
slice(start, stop, step) == [start |-> start, stop |-> stop, step |-> step]

\* range(start, stop, step) as the sequence of its values; step = 0 is the
\* ValueError Python raises, reported by the caller.
RECURSIVE range(_, _, _)
range(start, stop, step) ==
    IF (step > 0 /\ start < stop) \/ (step < 0 /\ start > stop)
    THEN <<start>> \o range(start + step, stop, step)
    ELSE <<>>

\* The arguments every wrapper call carries; a wrapper reads only its own.
DefaultCall ==
    [fn |-> "none", out |-> FALSE, initial |-> FALSE, where |-> FALSE,
     order |-> "K", ndmin |-> 0, subok |-> FALSE, is_blockarray |-> FALSE,
     copy |-> TRUE, dtype |-> "None", k |-> 0, step |-> 1,
     sections_is_int |-> TRUE, sections |-> 1, shape |-> <<1>>, axis |-> 0,
     block_shapes |-> <<>>, equal_nan |-> FALSE, fails |-> {},
     x1 |-> "None", x2 |-> "None", out_arg |-> "None", where_arg |-> "True"]

\* ---- split (api.py 189-207)

\* The pieces: one ary[tuple(ss_op)] per value of range(0, dim_total,
\* dim_partial), ss_op being slice(None, None, 1) on every axis but `axis`.
\* split_slices with every piece one element short.
split_slices_short(shape, axis, dim_total, dim_partial) ==
    LET ss_op == [a \in 1..Len(shape) |-> slice(NoneBound, NoneBound, 1)]
        starts == range(0, dim_total, dim_partial)
    IN  [j \in 1..Len(starts) |->
            PySetItem(ss_op, axis,
                      slice(IntBound(starts[j]),
                            IntBound(starts[j] + dim_partial - 1), 1))]

split_slices(shape, axis, dim_total, dim_partial) ==
    LET ss_op == [a \in 1..Len(shape) |-> slice(NoneBound, NoneBound, 1)]
        starts == range(0, dim_total, dim_partial)
    IN  [j \in 1..Len(starts) |->
            PySetItem(ss_op, axis,
                      slice(IntBound(starts[j]), IntBound(starts[j] + dim_partial), 1))]

split(c) ==
    IF ~c.sections_is_int THEN Raise("NotImplementedError")
    ELSE LET dim_total == PyIndex(c.shape, c.axis)
         IN  IF c.sections = 0 THEN Raise("ZeroDivisionError")
             ELSE IF PyMod(dim_total, c.sections) # 0 THEN Raise("ValueError")
             ELSE LET dim_partial == PyFloorDiv(dim_total, c.sections)
                  IN  IF dim_partial = 0 THEN Raise("ValueError")
                      ELSE LET results == split_slices(c.shape, c.axis,
                                                       dim_total, dim_partial)
                           IN  [j \in 1..Len(results) |->
                                   Ev("getitem", "ary", results[j])]
                               \o Return("tuple", results)

\* ---- concatenate (api.py 179-186)

\* scipy.stats.mode of a non-empty list: the most common value, the smallest
\* of them when several are equally common.
\* The first value instead of the most common one.
mode_first(xs) == xs[1]

mode(xs) ==
    LET vals == {xs[i] : i \in DOMAIN xs}
        count(v) == Cardinality({i \in DOMAIN xs : xs[i] = v})
        best == {v \in vals : \A w \in vals : count(w) <= count(v)}
    IN  CHOOSE v \in best : \A w \in best : v <= w

concatenate(c) ==
    IF c.out THEN Raise("NotImplementedError")
    ELSE LET axis_block_size ==
                 mode([i \in DOMAIN c.block_shapes |->
                          PyIndex(c.block_shapes[i], c.axis)])
         IN  <<InstanceCall,
               App("concatenate", <<c.axis, axis_block_size>>)>>
             \o Return("app.concatenate", <<>>)

\* ---- loadtxt (api.py 83-105)

\* c.fails names the calls that raise an Exception when loadtxt makes them:
\* "app.loadtxt", "compute_block_shape" (inside the try), "reshape",
\* "np.loadtxt", "compute_block_shape_local" and "app.array" (the handler).
loadtxt_local(c) ==
    <<Ev("local", "warnings.warn", <<>>), Ev("local", "np.loadtxt", <<>>)>>
    \o (IF "np.loadtxt" \in c.fails THEN RaiseFrom("np.loadtxt")
        ELSE <<App("compute_block_shape", <<>>)>>
             \o (IF "compute_block_shape_local" \in c.fails
                 THEN RaiseFrom("compute_block_shape_local")
                 ELSE <<App("array", <<>>)>>
                      \o (IF "app.array" \in c.fails THEN RaiseFrom("app.array")
                          ELSE Return("app.array", <<>>))))

\* loadtxt with the re-blocking after the try instead of inside it.
loadtxt_reshape_unguarded(c) ==
    <<InstanceCall, Ev("local", "get_num_cores", <<>>), App("loadtxt", <<>>)>>
    \o (IF "app.loadtxt" \in c.fails THEN loadtxt_local(c)
        ELSE <<App("compute_block_shape", <<>>)>>
             \o (IF "compute_block_shape" \in c.fails THEN loadtxt_local(c)
                 ELSE <<Ev("method", "reshape", <<>>)>>
                      \o (IF "reshape" \in c.fails THEN RaiseFrom("reshape")
                          ELSE Return("ba.reshape", <<>>))))

loadtxt(c) ==
    <<InstanceCall, Ev("local", "get_num_cores", <<>>), App("loadtxt", <<>>)>>
    \o (IF "app.loadtxt" \in c.fails THEN loadtxt_local(c)
        ELSE <<App("compute_block_shape", <<>>)>>
             \o (IF "compute_block_shape" \in c.fails THEN loadtxt_local(c)
                 ELSE <<Ev("method", "reshape", <<>>)>>
                      \o (IF "reshape" \in c.fails THEN loadtxt_local(c)
                          ELSE Return("ba.reshape", <<>>))))

\* ---- array, eye, diag, arange (api.py 108-128, 214-246)

array(c) ==
    IF c.order # "None" /\ c.order # "K" THEN Raise("NotImplementedError")
    ELSE IF c.ndmin # 0 THEN Raise("NotImplementedError")
    ELSE IF c.subok THEN Raise("ValueError")
    ELSE IF c.is_blockarray
    THEN (IF c.copy THEN <<Ev("method", "copy", <<>>)>> ELSE <<>>)
         \o (IF c.dtype = "other" THEN <<Ev("method", "astype", <<>>)>> ELSE <<>>)
         \o Return("object", <<>>)
    ELSE <<Ev("local", "np.array", <<>>), InstanceCall,
           App("compute_block_shape", <<>>), App("array", <<>>)>>
         \o Return("app.array", <<>>)

eye(c) ==
    <<InstanceCall>>
    \o (IF c.k # 0 THEN Raise("NotImplementedError")
        ELSE <<App("get_block_shape", <<>>), App("eye", <<>>)>>
             \o Return("app.eye", <<>>))

\* diag with the check of k after the dispatch.
diag_check_late(c) ==
    <<InstanceCall, App("diag", <<>>)>>
    \o (IF c.k # 0 THEN Raise("NotImplementedError") ELSE Return("app.diag", <<>>))

diag(c) ==
    <<InstanceCall>>
    \o (IF c.k # 0 THEN Raise("NotImplementedError")
        ELSE <<App("diag", <<>>)>> \o Return("app.diag", <<>>))

arange(c) ==
    IF c.step # 1 THEN Raise("NotImplementedError")
    ELSE <<InstanceCall, App("get_block_shape", <<>>), App("arange", <<>>)>>
         \o Return("app.arange", <<>>)

\* ---- matmul (api.py 277-279)

matmul(c) == <<InstanceCall, App("matmul", <<>>)>> \o Return("app.matmul", <<>>)

\* ---- reductions (api.py 309-388) and allclose (395-398)

\* min, max and sum: initial, where and out are checked in this order.
reduce_iwo(c, op) ==
    IF c.initial THEN Raise("NotImplementedError")
    ELSE IF c.where THEN Raise("NotImplementedError")
    ELSE IF c.out THEN Raise("NotImplementedError")
    ELSE <<InstanceCall, App(op, <<c.axis>>)>> \o Return(op, <<>>)

\* mean, var, std and all: only out is checked.
reduce_o(c, op) ==
    IF c.out THEN Raise("NotImplementedError")
    ELSE <<InstanceCall, App(op, <<c.axis>>)>> \o Return(op, <<>>)

min(c) == reduce_iwo(c, "min")
max(c) == reduce_iwo(c, "max")
sum(c) == reduce_iwo(c, "sum")
mean(c) == reduce_o(c, "mean")
var(c) == reduce_o(c, "var")
std(c) == reduce_o(c, "std")
all(c) == reduce_o(c, "all")

\* argop(op, a, axis): the array a is named by its shape.
argmin(c) ==
    IF c.out THEN Raise("NotImplementedError")
    ELSE <<InstanceCall, App("argop", <<"argmin", c.shape, c.axis>>)>>
         \o Return("app.argop", <<>>)

\* argmax without the check of out.
argmax_out_unchecked(c) ==
    IF Len(c.shape) > 1 THEN Raise("NotImplementedError")
    ELSE <<InstanceCall, App("argop", <<"argmax", c.shape, c.axis>>)>>
         \o Return("app.argop", <<>>)

argmax(c) ==
    IF Len(c.shape) > 1 THEN Raise("NotImplementedError")
    ELSE IF c.out THEN Raise("NotImplementedError")
    ELSE <<InstanceCall, App("argop", <<"argmax", c.shape, c.axis>>)>>
         \o Return("app.argop", <<>>)

allclose(c) ==
    IF c.equal_nan THEN Raise("NotImplementedError")
    ELSE <<InstanceCall, App("allclose", <<>>)>> \o Return("app.allclose", <<>>)

\* ---- generated elementwise wrappers (api.py 406-1168)

\* Each unary wrapper with the op_name it passes to map_uop.
UnaryTable ==
    {<<"abs", "abs">>, <<"absolute", "absolute">>, <<"arccos", "arccos">>,
     <<"arccosh", "arccosh">>, <<"arcsin", "arcsin">>,
     <<"arcsinh", "arcsinh">>, <<"arctan", "arctan">>,
     <<"arctanh", "arctanh">>, <<"bitwise_not", "bitwise_not">>,
     <<"cbrt", "cbrt">>, <<"ceil", "ceil">>, <<"conj", "conj">>,
     <<"conjugate", "conjugate">>, <<"cos", "cos">>, <<"cosh", "cosh">>,
     <<"deg2rad", "deg2rad">>, <<"degrees", "degrees">>, <<"exp", "exp">>,
     <<"exp2", "exp2">>, <<"expm1", "expm1">>, <<"fabs", "fabs">>,
     <<"floor", "floor">>, <<"invert", "invert">>,
     <<"isfinite", "isfinite">>, <<"isinf", "isinf">>, <<"isnan", "isnan">>,
     <<"log", "log">>, <<"log10", "log10">>, <<"log1p", "log1p">>,
     <<"log2", "log2">>, <<"logical_not", "logical_not">>,
     <<"negative", "negative">>, <<"positive", "positive">>,
     <<"rad2deg", "rad2deg">>, <<"radians", "radians">>,
     <<"reciprocal", "reciprocal">>, <<"rint", "rint">>, <<"sign", "sign">>,
     <<"signbit", "signbit">>, <<"sin", "sin">>, <<"sinh", "sinh">>,
     <<"spacing", "spacing">>, <<"sqrt", "sqrt">>, <<"square", "square">>,
     <<"tan", "tan">>, <<"tanh", "tanh">>, <<"trunc", "trunc">>}

\* Each binary wrapper with the op_name it passes to map_bop.
BinaryTable ==
    {<<"add", "add">>, <<"arctan2", "arctan2">>,
     <<"bitwise_and", "bitwise_and">>, <<"bitwise_or", "bitwise_or">>,
     <<"bitwise_xor", "bitwise_xor">>, <<"copysign", "copysign">>,
     <<"divide", "divide">>, <<"equal", "equal">>,
     <<"float_power", "float_power">>, <<"floor_divide", "floor_divide">>,
     <<"fmax", "fmax">>, <<"fmin", "fmin">>, <<"fmod", "fmod">>,
     <<"gcd", "gcd">>, <<"greater", "greater">>,
     <<"greater_equal", "greater_equal">>, <<"heaviside", "heaviside">>,
     <<"hypot", "hypot">>, <<"lcm", "lcm">>, <<"ldexp", "ldexp">>,
     <<"left_shift", "left_shift">>, <<"less", "less">>,
     <<"less_equal", "less_equal">>, <<"logaddexp", "logaddexp">>,
     <<"logaddexp2", "logaddexp2">>, <<"logical_and", "logical_and">>,
     <<"logical_or", "logical_or">>, <<"logical_xor", "logical_xor">>,
     <<"maximum", "maximum">>, <<"minimum", "minimum">>, <<"mod", "mod">>,
     <<"multiply", "multiply">>, <<"nextafter", "nextafter">>,
     <<"not_equal", "not_equal">>, <<"power", "power">>,
     <<"remainder", "remainder">>, <<"right_shift", "right_shift">>,
     <<"subtract", "subtract">>, <<"true_divide", "true_divide">>}

UnaryNames == {p[1] : p \in UnaryTable}
BinaryNames == {p[1] : p \in BinaryTable}

\* The op_name written in the body of the wrapper f.
op_name(f) == (CHOOSE p \in UnaryTable \cup BinaryTable : p[1] = f)[2]

\* A unary wrapper f(x, out, where): map_uop(op_name, arr=x, out=out,
\* where=where).
unary(c) ==
    <<InstanceCall,
      App("map_uop", <<op_name(c.fn), c.x1, c.out_arg, c.where_arg>>)>>
    \o Return("app.map_uop", <<>>)

\* A binary wrapper that hands its operands over in the other order.
binary_swapped(c) ==
    <<InstanceCall,
      App("map_bop", <<op_name(c.fn), c.x2, c.x1, c.out_arg, c.where_arg>>)>>
    \o Return("app.map_bop", <<>>)

\* A binary wrapper f(x1, x2, out, where): map_bop(op_name, arr_1=x1,
\* arr_2=x2, out=out, where=where).
binary(c) ==
    <<InstanceCall,
      App("map_bop", <<op_name(c.fn), c.x1, c.x2, c.out_arg, c.where_arg>>)>>
    \o Return("app.map_bop", <<>>)

\* The wrapper c.fn applied to the arguments of c.
WrapperTrace(c) ==
    CASE c.fn = "split" -> split(c)
      [] c.fn = "concatenate" -> concatenate(c)
      [] c.fn = "loadtxt" -> loadtxt(c)
      [] c.fn = "array" -> array(c)
      [] c.fn = "eye" -> eye(c)
      [] c.fn = "diag" -> diag(c)
      [] c.fn = "arange" -> arange(c)
      [] c.fn = "matmul" -> matmul(c)
      [] c.fn = "min" -> min(c)
      [] c.fn = "max" -> max(c)
      [] c.fn = "sum" -> sum(c)
      [] c.fn = "mean" -> mean(c)
      [] c.fn = "var" -> var(c)
      [] c.fn = "std" -> std(c)
      [] c.fn = "all" -> all(c)
      [] c.fn = "argmin" -> argmin(c)
      [] c.fn = "argmax" -> argmax(c)
      [] c.fn = "allclose" -> allclose(c)
      [] c.fn \in UnaryNames -> unary(c)
      [] c.fn \in BinaryNames -> binary(c)

\* ---- the calls the model makes

Shapes == UNION {[1..n -> 1..MaxDim] : n \in 1..2}

SplitCalls ==
    UNION {{[DefaultCall EXCEPT !.fn = "split", !.shape = sh, !.axis = ax,
                                !.sections = n] :
                ax \in {a \in -2..1 : -Len(sh) <= a /\ a < Len(sh)},
                n \in -2..MaxDim} : sh \in Shapes}
    \cup
    {[DefaultCall EXCEPT !.fn = "split", !.shape = sh, !.sections_is_int = FALSE] :
        sh \in Shapes}

\* The arrays of one concatenate call: block size bs[i] on the axis, the same
\* block size off on the other axis.
ConcatCalls ==
    {[DefaultCall EXCEPT !.fn = "concatenate", !.axis = ax, !.out = o,
                         !.block_shapes =
                             [i \in DOMAIN bs |->
                                 IF ax = 0 THEN <<bs[i], off>> ELSE <<off, bs[i]>>]] :
        ax \in {0, 1}, o \in BOOLEAN, off \in {1, MaxBlock},
        bs \in SeqsUpTo(1..MaxBlock, MaxArrays) \ {<<>>}}

LoadtxtFailures ==
    {"app.loadtxt", "compute_block_shape", "reshape",
     "np.loadtxt", "compute_block_shape_local", "app.array"}

LoadtxtCalls ==
    {[DefaultCall EXCEPT !.fn = "loadtxt", !.fails = fs] : fs \in SUBSET LoadtxtFailures}

ArrayCalls ==
    {[DefaultCall EXCEPT !.fn = "array", !.order = o, !.ndmin = n, !.subok = s,
                         !.is_blockarray = ba, !.copy = cp, !.dtype = dt] :
        o \in {"K", "None", "C", "F"}, n \in {0, 1}, s \in BOOLEAN,
        ba \in BOOLEAN, cp \in BOOLEAN, dt \in {"None", "same", "other"}}

DiagonalCalls ==
    {[DefaultCall EXCEPT !.fn = f, !.k = k] : f \in {"eye", "diag"}, k \in {-1, 0, 1}}

ArangeCalls == {[DefaultCall EXCEPT !.fn = "arange", !.step = st] : st \in {1, 2}}

ReductionCalls ==
    {[DefaultCall EXCEPT !.fn = f, !.out = o, !.initial = i, !.where = w,
                         !.shape = sh, !.axis = ax] :
        f \in {"min", "max", "sum"}, o \in BOOLEAN, i \in BOOLEAN, w \in BOOLEAN,
        sh \in {<<2>>, <<2, 2>>}, ax \in {0}}
    \cup
    {[DefaultCall EXCEPT !.fn = f, !.out = o, !.shape = sh, !.axis = ax] :
        f \in {"mean", "var", "std", "all", "argmin", "argmax"}, o \in BOOLEAN,
        sh \in {<<2>>, <<2, 2>>}, ax \in {0}}

OtherCalls ==
    {[DefaultCall EXCEPT !.fn = "allclose", !.equal_nan = en] : en \in BOOLEAN}
    \cup {[DefaultCall EXCEPT !.fn = "matmul"]}

\* The arrays, the out arguments and the where arguments of the elementwise
\* calls ("None" and "True" are the defaults).
Operands == {"a", "b"}
OutArgs == {"None", "o"}
WhereArgs == {"True", "w"}

UnaryCalls ==
    {[DefaultCall EXCEPT !.fn = f, !.x1 = x, !.out_arg = o, !.where_arg = w] :
        f \in UnaryNames, x \in Operands, o \in OutArgs, w \in WhereArgs}

BinaryCalls ==
    {[DefaultCall EXCEPT !.fn = f, !.x1 = x1, !.x2 = x2, !.out_arg = o,
                         !.where_arg = w] :
        f \in BinaryNames, x1 \in Operands, x2 \in Operands, o \in OutArgs,
        w \in WhereArgs}

ApiCalls ==
    SplitCalls \cup ConcatCalls \cup LoadtxtCalls \cup ArrayCalls \cup DiagonalCalls
    \cup ArangeCalls \cup ReductionCalls \cup OtherCalls \cup UnaryCalls
    \cup BinaryCalls

\* The wrapper calls made against the application manager.
MgrCalls ==
    {[DefaultCall EXCEPT !.fn = "matmul"],
     [DefaultCall EXCEPT !.fn = "sum", !.out = TRUE],
     [DefaultCall EXCEPT !.fn = "eye", !.k = 1],
     [DefaultCall EXCEPT !.fn = "split", !.shape = <<2>>, !.sections = 2]}

api_vars == <<api_call, api_trace>>

\* ------------------------------------------------------- engine state

VARIABLES
    grid,              \* the DeviceGrid (cluster_shape, ndevices), the block grid
                       \* it is asked about, and the get_device calls made on it
    grid_placed,       \* the device of each block placed so far, in row-major order
    grid_again,        \* a later get_device call: the coordinate's index, the device
    tasks,             \* the tasks submitted, by handle 1, 2, ...: the handles a
                       \* task takes as arguments, whether its kernel fails, its
                       \* state, the task whose failure it carries, its kernel runs
    last_get,          \* the last get(handle): the handle, value or raise, the error
    sum_in,            \* shape, block_shape, axis and values of the array
    sum_partials,      \* phase 1: per block, its partial sums along the axis
    sum_out,           \* phase 2: the result, one entry per non-reduced index
    mm_in,             \* matmul(identity(n), X): n, the block shape of the identity,
                       \* the columns, block shape and values of X
    mm_partials,       \* per output block: its partial products, one per
                       \* contraction block, in ascending order
    mm_out,            \* status "none", "rejected" or "done", and the blocks of
                       \* the result
    bop_in,            \* add(A, B): shape, block shape and values of A and of B
    bop_out            \* status, output shape and block shape, the blocks of the
                       \* result and, per output block, the source blocks used

grid_vars == <<grid, grid_placed, grid_again>>
task_vars == <<tasks, last_get>>
sum_vars == <<sum_in, sum_partials, sum_out>>
mm_vars == <<mm_in, mm_partials, mm_out>>
\* The engine state beyond the device grid, the substrate and the reduction.
bop_vars == <<bop_in, bop_out>>
ext_vars == <<mm_vars, bop_vars>>
eng_vars == <<grid_vars, task_vars, sum_vars, ext_vars>>

\* ------------------------------------------------ device grid (spec 4.1)

\* Largest extent of a block grid, of a cluster shape, and most devices.
MaxGrid == 3
MaxCluster == 2
MaxDevices == 3

TuplesUpTo(m) == UNION {[1..n -> 1..m] : n \in 1..2}

RECURSIVE Product(_)
Product(shape) == IF shape = <<>> THEN 1 ELSE Head(shape) * Product(Tail(shape))

\* The coordinate (0-based entries) with row-major index i over shape.
RECURSIVE Unflatten(_, _)
Unflatten(i, shape) ==
    IF shape = <<>> THEN <<>>
    ELSE LET inner == Product(Tail(shape))
         IN  <<i \div inner>> \o Unflatten(i % inner, Tail(shape))

\* The cluster shape as used for a coordinate of ndim axes: excess cluster
\* axes are dropped, missing ones count as size 1.
cluster_for(cluster_shape, ndim) ==
    [a \in 1..ndim |-> IF a <= Len(cluster_shape) THEN cluster_shape[a] ELSE 1]

\* Row-major index of a coordinate over a shape: sum of coord[a] times the
\* product of the extents after a.
RECURSIVE flatten(_, _)
flatten(coord, shape) ==
    IF coord = <<>> THEN 0
    ELSE Head(coord) * Product(Tail(shape)) + flatten(Tail(coord), Tail(shape))

\* A placement that hands devices out in turn, call after call.
get_device_by_turn(g, coord) == g.calls % g.ndevices

\* CyclicDeviceGrid.get_device: the coordinate flattened row-major over the
\* cluster shape, modulo the device count.
get_device(g, coord) ==
    flatten(coord, cluster_for(g.cluster_shape, Len(coord))) % g.ndevices

NoGrid == [cluster_shape |-> <<1>>, ndevices |-> 1, grid_shape |-> <<1>>, calls |-> 0]
NoAgain == [index |-> -1, device |-> -1]

GridIdle == grid = NoGrid /\ grid_placed = <<>> /\ grid_again = NoAgain

\* An array is laid out: get_device for the next block, in row-major order.
PlaceBlock ==
    /\ Len(grid_placed) < Product(grid.grid_shape)
    /\ grid_placed' =
           Append(grid_placed, get_device(grid, Unflatten(Len(grid_placed), grid.grid_shape)))
    /\ grid' = [grid EXCEPT !.calls = @ + 1]
    /\ UNCHANGED <<grid_again, task_vars, sum_vars, ext_vars, mgr_vars, api_vars>>

\* get_device is called once more for a block placed before.
GetDeviceAgain ==
    \E i \in 0..(Len(grid_placed) - 1) :
        /\ grid_again = NoAgain
        /\ grid_again' = [index |-> i, device |-> get_device(grid, Unflatten(i, grid.grid_shape))]
        /\ grid' = [grid EXCEPT !.calls = @ + 1]
        /\ UNCHANGED <<grid_placed, task_vars, sum_vars, ext_vars, mgr_vars,
                       api_vars>>

\* ----------------------------------------- execution substrate (spec 4.2)

\* Most tasks submitted in one run.
MaxTasks == 3

NoGet == [handle |-> 0, outcome |-> "none", error |-> 0]

TasksIdle == tasks = <<>> /\ last_get = NoGet

\* A task whose arguments are resolved and whose failed arguments are ignored:
\* the kernel runs on whatever they hold.
resolve_ignoring_arguments(ts, h) ==
    [ts[h] EXCEPT !.state = IF ts[h].fails THEN "failed" ELSE "done",
                  !.error = IF ts[h].fails THEN h ELSE 0,
                  !.runs = @ + 1]

\* A task whose arguments are all resolved: with a failed argument it carries
\* that failure on and its kernel does not run; else the kernel runs once and
\* the task holds its value or its own failure.
resolve(ts, h) ==
    LET bad == {d \in ts[h].deps : ts[d].state = "failed"}
    IN  IF bad # {}
        THEN [ts[h] EXCEPT !.state = "failed",
                           !.error = ts[CHOOSE d \in bad : \A e \in bad : d <= e].error]
        ELSE [ts[h] EXCEPT !.state = IF ts[h].fails THEN "failed" ELSE "done",
                           !.error = IF ts[h].fails THEN h ELSE 0,
                           !.runs = @ + 1]

\* get(handle) on a resolved task: its value, or the failure it carries.
get(ts, h) ==
    IF ts[h].state = "failed"
    THEN [handle |-> h, outcome |-> "raise", error |-> ts[h].error]
    ELSE [handle |-> h, outcome |-> "value", error |-> 0]

\* call(kernel, args, device): a handle at once, whatever the arguments'
\* state; handles of earlier calls are accepted unforced.
Call ==
    \E deps \in SUBSET (1..Len(tasks)), fails \in BOOLEAN :
        /\ Len(tasks) < MaxTasks
        /\ tasks' = Append(tasks, [deps |-> deps, fails |-> fails, state |-> "pending",
                                   error |-> 0, runs |-> 0])
        /\ UNCHANGED <<last_get, grid_vars, sum_vars, ext_vars, mgr_vars, api_vars>>

\* The substrate runs a task once its arguments are resolved.
Execute ==
    \E h \in DOMAIN tasks :
        /\ tasks[h].state = "pending"
        /\ \A d \in tasks[h].deps : tasks[d].state # "pending"
        /\ tasks' = [tasks EXCEPT ![h] = resolve(tasks, h)]
        /\ UNCHANGED <<last_get, grid_vars, sum_vars, ext_vars, mgr_vars, api_vars>>

\* get(handle) blocks until the task is resolved.
Get ==
    \E h \in DOMAIN tasks :
        /\ tasks[h].state # "pending"
        /\ last_get' = get(tasks, h)
        /\ UNCHANGED <<tasks, grid_vars, sum_vars, ext_vars, mgr_vars, api_vars>>

\* ------------------------------------------- blocked reduction (spec 4.3)

\* Longest side of an array handed to sum.
MaxSide == 6

\* The element (i, j) (0-based) of the array named by pattern.
Value(pattern, i, j) ==
    CASE pattern = "ones" -> 1
      [] pattern = "index" -> i * MaxSide + j
      [] pattern = "mixed" -> ((i + 2 * j) % 3) - 1

CeilDiv(a, b) == (a + b - 1) \div b
Min2(a, b) == IF a < b THEN a ELSE b

RECURSIVE SumSeq(_)
SumSeq(q) == IF q = <<>> THEN 0 ELSE Head(q) + SumSeq(Tail(q))

NoSum == [shape |-> <<1, 1>>, block_shape |-> <<1, 1>>, axis |-> 0, pattern |-> "ones"]
SumIdle == sum_in = NoSum /\ sum_partials = <<>> /\ sum_out = <<>>

\* The block grid of an array: blocks per axis.
grid_of(in) ==
    <<CeilDiv(in.shape[1], in.block_shape[1]), CeilDiv(in.shape[2], in.block_shape[2])>>

\* The index range (0-based) of block b along an axis of length dim cut in
\* blocks of size bs: the last block may be shorter.
block_range(b, bs, dim) == (b * bs)..(Min2((b + 1) * bs, dim) - 1)

\* Phase 1 for block (bi, bj): the block reduced along the axis on its own,
\* one partial sum per index of the block on the other axis.
block_partial(in, bi, bj) ==
    LET rows == block_range(bi, in.block_shape[1], in.shape[1])
        cols == block_range(bj, in.block_shape[2], in.shape[2])
        first(S) == CHOOSE x \in S : \A y \in S : x <= y
    IN  IF in.axis = 0
        THEN [k \in 1..Cardinality(cols) |->
                SumSeq([r \in 1..Cardinality(rows) |->
                          Value(in.pattern, first(rows) + r - 1, first(cols) + k - 1)])]
        ELSE [k \in 1..Cardinality(rows) |->
                SumSeq([c \in 1..Cardinality(cols) |->
                          Value(in.pattern, first(rows) + k - 1, first(cols) + c - 1)])]

\* A combine that keeps only the first partial of each column of blocks.
combine_first_only(in, partials, b) ==
    IF in.axis = 0 THEN partials[1][b + 1] ELSE partials[b + 1][1]

\* Phase 2 for the non-reduced block coordinate b: the partials that share
\* it, added element by element in ascending block order.
combine(in, partials, b) ==
    LET g == grid_of(in)
        along == IF in.axis = 0 THEN g[1] ELSE g[2]
        part(a) == IF in.axis = 0 THEN partials[a + 1][b + 1] ELSE partials[b + 1][a + 1]
    IN  [k \in 1..Len(part(0)) |-> SumSeq([a \in 1..along |-> part(a - 1)[k]])]

RECURSIVE Flat(_)
Flat(qs) == IF qs = <<>> THEN <<>> ELSE Head(qs) \o Flat(Tail(qs))

SumPartials ==
    /\ sum_partials = <<>>
    /\ sum_partials' =
           LET g == grid_of(sum_in)
           IN  [bi \in 1..g[1] |-> [bj \in 1..g[2] |-> block_partial(sum_in, bi - 1, bj - 1)]]
    /\ UNCHANGED <<sum_in, sum_out, grid_vars, task_vars, ext_vars, mgr_vars, api_vars>>

SumCombine ==
    /\ sum_partials # <<>>
    /\ sum_out = <<>>
    /\ sum_out' =
           LET g == grid_of(sum_in)
               across == IF sum_in.axis = 0 THEN g[2] ELSE g[1]
           IN  Flat([b \in 1..across |-> combine(sum_in, sum_partials, b - 1)])
    /\ UNCHANGED <<sum_in, sum_partials, grid_vars, task_vars, ext_vars, mgr_vars,
                   api_vars>>

\* ------------------------------------------ blocked contraction (spec 4.3)

\* Largest n of identity(n), and most columns of X.
MaxN == 4
MaxCols == 2

\* The element (i, j) (0-based) of the dense array named by pattern: the
\* identity, or one of the arrays of Value.
Elem(pattern, i, j) ==
    IF pattern = "eye" THEN (IF i = j THEN 1 ELSE 0) ELSE Value(pattern, i, j)

\* A DistributedArray of two axes: shape, block shape and the dense values its
\* blocks tile.
BlockArray(shape, block_shape, pattern) ==
    [shape |-> shape, block_shape |-> block_shape, pattern |-> pattern]

\* Number of indices of block b along an axis (the last block may be shorter).
block_len(b, bs, dim) == Min2((b + 1) * bs, dim) - b * bs

\* The block (bi, bj) of an array, as rows of local values.
block(arr, bi, bj) ==
    [li \in 1..block_len(bi, arr.block_shape[1], arr.shape[1]) |->
        [lj \in 1..block_len(bj, arr.block_shape[2], arr.shape[2]) |->
            Elem(arr.pattern, bi * arr.block_shape[1] + li - 1,
                              bj * arr.block_shape[2] + lj - 1)]]

\* The product of two local blocks.
block_product(p, q) ==
    [li \in 1..Len(p) |->
        [lj \in 1..Len(q[1]) |-> SumSeq([k \in 1..Len(q) |-> p[li][k] * q[k][lj]])]]

\* A combine that keeps the first partial product only.
block_sum_first(ps) == ps[1]

\* The sum of local blocks of one shape, added in the order given.
RECURSIVE block_sum(_)
block_sum(ps) ==
    IF Len(ps) = 1 THEN ps[1]
    ELSE LET rest == block_sum(Tail(ps))
         IN  [li \in 1..Len(ps[1]) |->
                [lj \in 1..Len(ps[1][1]) |-> ps[1][li][lj] + rest[li][lj]]]

\* identity(n) as the engine lays it out in blocks of block_shape.
identity(n, block_shape) == BlockArray(<<n, n>>, block_shape, "eye")

\* The operands of the contraction drawn in mm_in.
mm_left(in) == identity(in.n, in.a_block)
mm_right(in) == BlockArray(<<in.n, in.cols>>, in.x_block, in.pattern)

\* The contracted axis is cut alike on both operands.
contraction_aligned(a, x) == a.block_shape[2] = x.block_shape[1]

\* The partial products of the output block (bi, bj): one per contraction
\* block k, block (bi, k) of the left operand times block (k, bj) of the right.
partial_products(a, x, bi, bj) ==
    [k \in 1..grid_of(a)[2] |->
        block_product(block(a, bi, k - 1), block(x, k - 1, bj))]

NoMatmul == [n |-> 1, a_block |-> <<1, 1>>, cols |-> 1, x_block |-> <<1, 1>>,
             pattern |-> "ones"]
NoResult == [status |-> "none", blocks |-> <<>>]
MatmulIdle == mm_in = NoMatmul /\ mm_partials = <<>> /\ mm_out = NoResult

\* Operands whose blocks disagree along the contracted axis are rejected
\* before any task is issued.
MatmulReject ==
    /\ mm_out = NoResult
    /\ ~contraction_aligned(mm_left(mm_in), mm_right(mm_in))
    /\ mm_out' = [status |-> "rejected", blocks |-> <<>>]
    /\ UNCHANGED <<mm_in, mm_partials, grid_vars, task_vars, sum_vars, bop_vars,
                   mgr_vars, api_vars>>

\* The partial-product tasks of every output block.
MatmulPartials ==
    LET a == mm_left(mm_in)
        x == mm_right(mm_in)
    IN  /\ mm_out = NoResult
        /\ mm_partials = <<>>
        /\ contraction_aligned(a, x)
        /\ mm_partials' =
               [bi \in 1..grid_of(a)[1] |->
                   [bj \in 1..grid_of(x)[2] |-> partial_products(a, x, bi - 1, bj - 1)]]
        /\ UNCHANGED <<mm_in, mm_out, grid_vars, task_vars, sum_vars, bop_vars,
                       mgr_vars, api_vars>>

\* The partial products of each output block, combined in ascending order.
MatmulCombine ==
    /\ mm_partials # <<>>
    /\ mm_out = NoResult
    /\ mm_out' =
           [status |-> "done",
            blocks |-> [bi \in DOMAIN mm_partials |->
                          [bj \in DOMAIN mm_partials[bi] |->
                              block_sum(mm_partials[bi][bj])]]]
    /\ UNCHANGED <<mm_in, mm_partials, grid_vars, task_vars, sum_vars, bop_vars,
                   mgr_vars, api_vars>>

\* --------------------------------- elementwise binary, map_bop (spec 4.3)

\* Longest axis of an operand of add.
MaxExt == 4

Max2(a, b) == IF a < b THEN b ELSE a

\* A shape of one axis right-aligned against two axes: the missing leading
\* axis counts as size 1.
align(shape) == IF Len(shape) = 1 THEN <<1>> \o shape ELSE shape

\* Standard broadcast compatibility of two aligned shapes: on every axis the
\* sizes are equal or one of them is 1.
broadcast_compatible(sa, sb) == \A a \in 1..2 : sa[a] = sb[a] \/ sa[a] = 1 \/ sb[a] = 1

broadcast_shape(sa, sb) == [a \in 1..2 |-> Max2(sa[a], sb[a])]

\* The operands of the call drawn in bop_in, axes aligned.
bop_left(in) == BlockArray(align(in.a_shape), align(in.a_block), in.a_pattern)
bop_right(in) == BlockArray(align(in.b_shape), align(in.b_block), in.b_pattern)

\* The block of an operand that serves the output block coordinate out: on an
\* axis where the operand has size 1 its single block, reused for every
\* coordinate along that axis; else the block with the output's index.
source_block(arr, out) == [a \in 1..2 |-> IF arr.shape[a] = 1 THEN 0 ELSE out[a]]

\* The local index always 1: every element of the block takes the first one.
local_index_first(len, l) == 1

\* The local index into a block side of length len for the output's local
\* index l: the single element of a size-1 side serves every l.
local_index(len, l) == IF len = 1 THEN 1 ELSE l

\* The add kernel on two local blocks, the smaller broadcast to the larger.
add_kernel(p, q) ==
    [li \in 1..Max2(Len(p), Len(q)) |->
        [lj \in 1..Max2(Len(p[1]), Len(q[1])) |->
            p[local_index(Len(p), li)][local_index(Len(p[1]), lj)]
            + q[local_index(Len(q), li)][local_index(Len(q[1]), lj)]]]

\* map_bop("add", A, B): per output block coordinate, the kernel on the
\* source blocks of both operands; the output block shape is the larger of
\* the operands' on each axis.
map_bop(a, b) ==
    LET shape == broadcast_shape(a.shape, b.shape)
        block_shape == [x \in 1..2 |-> Max2(a.block_shape[x], b.block_shape[x])]
        g == grid_of([shape |-> shape, block_shape |-> block_shape])
    IN  [status |-> "done", shape |-> shape, block_shape |-> block_shape,
         blocks |->
             [bi \in 1..g[1] |->
                 [bj \in 1..g[2] |->
                     LET sa == source_block(a, <<bi - 1, bj - 1>>)
                         sb == source_block(b, <<bi - 1, bj - 1>>)
                     IN  add_kernel(block(a, sa[1], sa[2]), block(b, sb[1], sb[2]))]],
         sources |->
             [bi \in 1..g[1] |->
                 [bj \in 1..g[2] |->
                     [left |-> source_block(a, <<bi - 1, bj - 1>>),
                      right |-> source_block(b, <<bi - 1, bj - 1>>)]]]]

NoBop == [a_shape |-> <<1, 1>>, a_block |-> <<1, 1>>, a_pattern |-> "ones",
          b_shape |-> <<1>>, b_block |-> <<1>>, b_pattern |-> "ones"]
NoBopResult == [status |-> "none", shape |-> <<>>, block_shape |-> <<>>,
                blocks |-> <<>>, sources |-> <<>>]
BopIdle == bop_in = NoBop /\ bop_out = NoBopResult

\* Operands that do not broadcast are rejected before any task is issued.
BopReject ==
    /\ bop_out = NoBopResult
    /\ ~broadcast_compatible(bop_left(bop_in).shape, bop_right(bop_in).shape)
    /\ bop_out' = [NoBopResult EXCEPT !.status = "rejected"]
    /\ UNCHANGED <<bop_in, grid_vars, task_vars, sum_vars, mm_vars, mgr_vars, api_vars>>

BopMap ==
    /\ bop_out = NoBopResult
    /\ broadcast_compatible(bop_left(bop_in).shape, bop_right(bop_in).shape)
    /\ bop_out' = map_bop(bop_left(bop_in), bop_right(bop_in))
    /\ UNCHANGED <<bop_in, grid_vars, task_vars, sum_vars, mm_vars, mgr_vars, api_vars>>

ExtIdle == MatmulIdle /\ BopIdle

EngIdle == GridIdle /\ TasksIdle /\ SumIdle /\ ExtIdle

\* ------------------------------------------- application manager: actions

\* instance() itself, as a call: it returns _instance.
InstanceFn == [DefaultCall EXCEPT !.fn = "instance"]

CallTrace(c) ==
    IF c.fn = "instance" THEN <<InstanceCall>> \o Return("_instance", <<>>)
    ELSE WrapperTrace(c)

\* Position of the first _instance() call of a trace, 0 when it makes none.
FirstInstance(T) ==
    IF \E i \in DOMAIN T : T[i] = InstanceCall
    THEN CHOOSE i \in DOMAIN T : T[i] = InstanceCall /\ \A j \in 1..(i - 1) : T[j] # InstanceCall
    ELSE 0

HasApp(T) == \E i \in DOMAIN T : T[i].ev = "app"

\* A dispatch that looks the substrate and the device grid up by name in the
\* settings at call time.
AppDispatchByName(inst, s) ==
    [id |-> inst.id, system |-> s.system_name, device_grid |-> s.device_grid_name,
     cluster_shape |-> s.cluster_shape]

\* The application an operation of the wrappers runs on: the object that
\* instance() returned, with the substrate and device grid create() gave it.
AppDispatch(inst, s) == inst

NoDispatch == [app |-> None, settings_changed |-> FALSE]

\* After instance() has returned app, created under the settings made: the
\* rest of the call c.
Finish(c, app, made) ==
    /\ api_trace' = CallTrace(c)
    /\ dispatch' = IF HasApp(CallTrace(c))
                   THEN [app |-> AppDispatch(app, settings),
                         settings_changed |-> settings # made]
                   ELSE dispatch

\* The call c, made while no call is in progress.  Up to its first
\* _instance() the manager is not involved; instance() (lines 50-57) returns
\* the live application, or calls create(), stores the result and runs the
\* hook loop, one hook per HookStep.
Run(c) ==
    LET T == CallTrace(c)
        k == FirstInstance(T)
        sid == nsessions + 1
        r == create(settings, _instance, sid)
    IN  /\ api_call' = c
        /\ IF k = 0
           THEN /\ api_trace' = T
                /\ settings_read' = FALSE
                /\ UNCHANGED <<_instance, _call_on_create, pc, loop_i, ncalls,
                               hook_log, hooks_at_create,
                               running, nsessions, chosen, dispatch>>
           ELSE IF ~must_create(_instance)
           THEN /\ Finish(c, _instance, chosen)
                /\ settings_read' = FALSE
                /\ UNCHANGED <<_instance, _call_on_create, pc, loop_i, ncalls,
                               hook_log, hooks_at_create,
                               running, nsessions, chosen>>
           ELSE /\ r.inited => nsessions < MaxSessions
                /\ settings_read' = r.read
                /\ nsessions' = IF r.inited THEN sid ELSE nsessions
                /\ chosen' = IF r.exc = "none" THEN settings ELSE chosen
                /\ running' = IF r.inited THEN running \cup {sid} ELSE running
                /\ IF r.exc # "none"
                   THEN /\ api_trace' = SubSeq(T, 1, k) \o Raise("Exception")
                        /\ UNCHANGED <<_instance, _call_on_create, pc, loop_i,
                                       ncalls, hook_log, hooks_at_create, dispatch>>
                   ELSE /\ _instance' = r.app
                        /\ ncalls' = Zeros(Len(_call_on_create))
                        /\ hook_log' = <<>>
                        /\ hooks_at_create' = Len(_call_on_create)
                        /\ UNCHANGED _call_on_create
                        /\ IF _call_on_create = <<>>
                           THEN /\ Finish(c, r.app, settings)
                                /\ UNCHANGED <<pc, loop_i>>
                           ELSE /\ pc' = "hooks"
                                /\ loop_i' = 1
                                /\ api_trace' = SubSeq(T, 1, k)
                                /\ UNCHANGED dispatch
        /\ UNCHANGED <<settings, eng_vars>>

\* instance(), called by the user.
Instance == pc = "idle" /\ Run(InstanceFn)

\* A wrapper of nums.numpy.api, called by the user.
Wrapper == pc = "idle" /\ \E c \in MgrCalls : Run(c)

\* One iteration of `for func in _call_on_create: func(_instance)`; the loop
\* index runs over the list as it is now, entries appended meanwhile included.
HookStep ==
    \E b \in Behaviours :
        LET r == InvokeHook(_call_on_create, ncalls, loop_i, b)
        IN  /\ pc = "hooks"
            /\ Len(_call_on_create) + Len(b.chain) <= MaxHooks
            /\ _call_on_create' = r.list
            /\ ncalls' = r.calls
            /\ hook_log' = hook_log \o Invocations(r.invoked, _instance)
            /\ settings_read' = FALSE
            /\ IF r.raised
               THEN /\ pc' = "idle" /\ loop_i' = 0
                    /\ api_trace' = api_trace \o Raise("Exception")
                    /\ UNCHANGED dispatch
               ELSE IF loop_i + 1 > Len(r.list)
               THEN /\ pc' = "idle" /\ loop_i' = 0
                    /\ Finish(api_call, _instance, chosen)
               ELSE /\ loop_i' = loop_i + 1
                    /\ UNCHANGED <<pc, api_trace, dispatch>>
            /\ UNCHANGED <<settings, _instance, hooks_at_create, running, nsessions,
                           chosen, api_call, eng_vars>>

\* call_on_create(func), called by the user.
CallOnCreate ==
    \E func \in ByCaller, b \in Behaviours :
        LET r == call_on_create(_call_on_create, ncalls, is_initialized, func, b)
        IN  /\ pc = "idle"
            /\ ~is_initialized => b = [chain |-> <<>>, raises |-> FALSE]
            /\ Len(r.list) <= MaxHooks
            /\ _call_on_create' = r.list
            /\ ncalls' = r.calls
            /\ hook_log' = hook_log \o Invocations(r.invoked, _instance)
            /\ settings_read' = FALSE
            /\ UNCHANGED <<settings, _instance, pc, loop_i, hooks_at_create, running,
                           nsessions, chosen, dispatch, api_vars, eng_vars>>

\* create(), called by the user: the application is returned to the caller,
\* _instance is not assigned.
Create ==
    LET sid == nsessions + 1
        r == create(settings, _instance, sid)
    IN  /\ pc = "idle"
        /\ r.inited => nsessions < MaxSessions
        /\ settings_read' = r.read
        /\ nsessions' = IF r.inited THEN sid ELSE nsessions
        /\ UNCHANGED chosen
        /\ running' = IF r.inited THEN running \cup {sid} ELSE running
        /\ UNCHANGED <<settings, _instance, _call_on_create, pc, loop_i, ncalls,
                       hook_log, hooks_at_create, dispatch, api_vars, eng_vars>>

\* destroy() as a call.
DestroyFn == [DefaultCall EXCEPT !.fn = "destroy"]

\* destroy() that forgets the instance without shutting its substrate down.
destroy_without_shutdown(inst, run) ==
    IF inst = None THEN [inst |-> inst, running |-> run, trace |-> Return("None", <<>>)]
    ELSE [inst |-> None, running |-> run,
          trace |-> <<Ev("local", "ComputeManager.destroy", <<>>)>>
                    \o Return("None", <<>>)]

\* destroy(): nothing without an instance; else shut its substrate down, call
\* ComputeManager.destroy() and forget the instance.  The hook list stays.
destroy(inst, run) ==
    IF inst = None THEN [inst |-> inst, running |-> run, trace |-> Return("None", <<>>)]
    ELSE [inst |-> None, running |-> run \ {inst.id},
          trace |-> <<Ev("method", "system.shutdown", <<inst.id>>),
                      Ev("local", "ComputeManager.destroy", <<>>)>>
                    \o Return("None", <<>>)]

Destroy ==
    LET r == destroy(_instance, running)
    IN  /\ pc = "idle"
        /\ _instance' = r.inst
        /\ running' = r.running
        /\ api_call' = DestroyFn
        /\ api_trace' = r.trace
        /\ settings_read' = FALSE
        /\ UNCHANGED <<settings, _call_on_create, pc, loop_i, ncalls, hook_log,
                       hooks_at_create, nsessions, chosen, dispatch, eng_vars>>

\* The user assigns to the settings module.
SetSettings ==
    \E s \in SettingsValues :
        /\ pc = "idle"
        /\ s # settings
        /\ settings' = s
        /\ settings_read' = FALSE
        /\ UNCHANGED <<_instance, _call_on_create, pc, loop_i, ncalls, hook_log,
                       hooks_at_create, running, nsessions, chosen, dispatch,
                       api_vars, eng_vars>>

MgrInit ==
    /\ settings = DefaultSettings
    /\ _instance = None
    /\ _call_on_create = <<>>
    /\ pc = "idle"
    /\ loop_i = 0
    /\ ncalls = <<>>
    /\ hook_log = <<>>
    /\ hooks_at_create = 0
    /\ running = {}
    /\ nsessions = 0
    /\ chosen = DefaultSettings
    /\ settings_read = FALSE
    /\ dispatch = NoDispatch

vars == <<mgr_vars, api_vars, eng_vars>>

ApiIdle == api_call = DefaultCall /\ api_trace = <<>>

Init == MgrInit /\ ApiIdle /\ EngIdle

Next ==
    \/ Instance
    \/ Wrapper
    \/ HookStep
    \/ CallOnCreate
    \/ Create
    \/ Destroy
    \/ SetSettings

Spec == Init /\ [][Next]_vars

\* ------------------------------------------------- the wrappers, one call

\* The call drawn has not been made yet; making it leaves the trace tr.
Apply(tr) ==
    /\ api_trace = <<>>
    /\ api_trace' = tr
    /\ UNCHANGED <<api_call, mgr_vars, eng_vars>>

ApiSplit == api_call.fn = "split" /\ Apply(split(api_call))
ApiConcatenate == api_call.fn = "concatenate" /\ Apply(concatenate(api_call))
ApiLoadtxt == api_call.fn = "loadtxt" /\ Apply(loadtxt(api_call))
ApiArray == api_call.fn = "array" /\ Apply(array(api_call))
ApiEye == api_call.fn = "eye" /\ Apply(eye(api_call))
ApiDiag == api_call.fn = "diag" /\ Apply(diag(api_call))
ApiArange == api_call.fn = "arange" /\ Apply(arange(api_call))
ApiMatmul == api_call.fn = "matmul" /\ Apply(matmul(api_call))
ApiMin == api_call.fn = "min" /\ Apply(min(api_call))
ApiMax == api_call.fn = "max" /\ Apply(max(api_call))
ApiSum == api_call.fn = "sum" /\ Apply(sum(api_call))
ApiMean == api_call.fn = "mean" /\ Apply(mean(api_call))
ApiVar == api_call.fn = "var" /\ Apply(var(api_call))
ApiStd == api_call.fn = "std" /\ Apply(std(api_call))
ApiAll == api_call.fn = "all" /\ Apply(all(api_call))
ApiArgmin == api_call.fn = "argmin" /\ Apply(argmin(api_call))
ApiArgmax == api_call.fn = "argmax" /\ Apply(argmax(api_call))
ApiAllclose == api_call.fn = "allclose" /\ Apply(allclose(api_call))
ApiUnary == api_call.fn \in UnaryNames /\ Apply(unary(api_call))
ApiBinary == api_call.fn \in BinaryNames /\ Apply(binary(api_call))

InitApi ==
    /\ MgrInit
    /\ api_call \in ApiCalls
    /\ api_trace = <<>>
    /\ EngIdle

NextApi ==
    \/ ApiSplit \/ ApiConcatenate \/ ApiLoadtxt \/ ApiArray \/ ApiEye \/ ApiDiag
    \/ ApiArange \/ ApiMatmul \/ ApiMin \/ ApiMax \/ ApiSum \/ ApiMean \/ ApiVar
    \/ ApiStd \/ ApiAll \/ ApiArgmin \/ ApiArgmax \/ ApiAllclose
    \/ ApiUnary \/ ApiBinary

SpecApi == InitApi /\ [][NextApi]_vars

\* ------------------------------------------------------ the engine alone

GridConfigs ==
    {[cluster_shape |-> cs, ndevices |-> n, grid_shape |-> gs, calls |-> 0] :
        cs \in TuplesUpTo(MaxCluster), n \in 1..MaxDevices, gs \in TuplesUpTo(MaxGrid)}

InitGrid ==
    /\ MgrInit /\ ApiIdle /\ TasksIdle /\ SumIdle /\ ExtIdle
    /\ grid \in GridConfigs
    /\ grid_placed = <<>>
    /\ grid_again = NoAgain

NextGrid == PlaceBlock \/ GetDeviceAgain

SpecGrid == InitGrid /\ [][NextGrid]_vars

InitTasks == MgrInit /\ ApiIdle /\ GridIdle /\ SumIdle /\ ExtIdle /\ TasksIdle

NextTasks == Call \/ Execute \/ Get

SpecTasks == InitTasks /\ [][NextTasks]_vars

SumInputs ==
    {in \in [shape : [1..2 -> 1..MaxSide], block_shape : [1..2 -> 1..MaxSide],
             axis : {0, 1}, pattern : {"ones", "index", "mixed"}] :
        in.block_shape[1] <= in.shape[1] /\ in.block_shape[2] <= in.shape[2]}

InitSum ==
    /\ MgrInit /\ ApiIdle /\ GridIdle /\ TasksIdle /\ ExtIdle
    /\ sum_in \in SumInputs
    /\ sum_partials = <<>>
    /\ sum_out = <<>>

NextSum == SumPartials \/ SumCombine

SpecSum == InitSum /\ [][NextSum]_vars

MatmulInputs ==
    {in \in [n : 1..MaxN, a_block : [1..2 -> 1..MaxN], cols : 1..MaxCols,
             x_block : [1..2 -> 1..MaxN], pattern : {"ones", "index", "mixed"}] :
        /\ in.a_block[1] <= in.n /\ in.a_block[2] <= in.n
        /\ in.x_block[1] <= in.n /\ in.x_block[2] <= in.cols}

InitMatmul ==
    /\ MgrInit /\ ApiIdle /\ GridIdle /\ TasksIdle /\ SumIdle /\ BopIdle
    /\ mm_in \in MatmulInputs
    /\ mm_partials = <<>>
    /\ mm_out = NoResult

NextMatmul == MatmulReject \/ MatmulPartials \/ MatmulCombine

SpecMatmul == InitMatmul /\ [][NextMatmul]_vars

\* A of two axes in any block shape; B of one or two axes, cut like A on the
\* axes where their sizes agree, in one block on the others.
BopInputs ==
    {in \in [a_shape : [1..2 -> 1..MaxExt], a_block : [1..2 -> 1..MaxExt],
             a_pattern : {"index", "mixed"},
             b_shape : TuplesUpTo(MaxExt), b_block : TuplesUpTo(MaxExt),
             b_pattern : {"index", "mixed"}] :
        /\ \A x \in 1..2 : in.a_block[x] <= in.a_shape[x]
        /\ Len(in.b_block) = Len(in.b_shape)
        /\ \A x \in 1..2 :
              align(in.b_block)[x] =
                  IF align(in.b_shape)[x] = in.a_shape[x] THEN in.a_block[x]
                  ELSE align(in.b_shape)[x]}

InitBop ==
    /\ MgrInit /\ ApiIdle /\ GridIdle /\ TasksIdle /\ SumIdle /\ MatmulIdle
    /\ bop_in \in BopInputs
    /\ bop_out = NoBopResult

NextBop == BopReject \/ BopMap

SpecBop == InitBop /\ [][NextBop]_vars

\* ------------------------------------------------------------------ claims

\* C1: each registered hook is invoked exactly once per application instance:
\* no entry of the hook list is ever invoked twice on the same instance, also
\* when a hook calls call_on_create while instance() runs its hook loop.
C1_HookOncePerInstance == \A k \in DOMAIN ncalls : ncalls[k] <= 1

\* C2: the substrate and the device grid are chosen once, at creation.  While
\* an application is live no step reads the settings and _instance stays the
\* same object; the live application has, and every operation dispatched on
\* it uses, the substrate, device grid and cluster shape the settings named
\* when it was created, whatever the settings say now.
C2_ChosenAtCreation ==
    /\ [](is_initialized =>
            /\ _instance.system = chosen.system_name
            /\ _instance.device_grid = chosen.device_grid_name
            /\ _instance.cluster_shape = chosen.cluster_shape)
    /\ []((is_initialized /\ dispatch.app.id = _instance.id) =>
            /\ dispatch.app.system = chosen.system_name
            /\ dispatch.app.device_grid = chosen.device_grid_name
            /\ dispatch.app.cluster_shape = chosen.cluster_shape)
    /\ [][is_initialized =>
            (~settings_read' /\ (is_initialized' => _instance' = _instance))]_vars

\* C2 witness: an operation was dispatched on the live application after the
\* settings had been changed to name another system and another device grid.
C2_Witness ==
    /\ is_initialized
    /\ pc = "idle"
    /\ api_call.fn = "matmul"
    /\ dispatch.app.id = _instance.id
    /\ dispatch.settings_changed
    /\ settings.system_name # chosen.system_name
    /\ settings.device_grid_name # chosen.device_grid_name

\* ---- what the claims about the wrappers speak of

Called == api_trace # <<>>
Last(T) == T[Len(T)]
Raised(T) == Last(T).ev = "raise"
Returned(T) == Last(T).ev = "return"
AppOps(T) == SelectSeq(T, LAMBDA e : e.ev = "app")
GetItems(T) == SelectSeq(T, LAMBDA e : e.ev = "getitem")

\* The position (1-based) of the Python axis ax of a shape.
AxisPos(shape, ax) == IF ax < 0 THEN Len(shape) + ax + 1 ELSE ax + 1

\* n divides d, for any integers.
Divides(n, d) == \E q \in -d..d : q * n = d

\* The indices 0..dim-1 that a step-1 slice selects (Python: None is the end
\* of the range, a bound past the end is clipped).
SliceIndices(sl, dim) ==
    {x \in 0..(dim - 1) :
        /\ (sl.start.none \/ sl.start.v <= x)
        /\ (sl.stop.none \/ x < sl.stop.v)}

\* C3: split(ary, n, axis) with an integer n that divides ary.shape[axis]
\* returns exactly n pieces (n a count of pieces, so n >= 1); piece i is the
\* slice [i*d, (i+1)*d) with step 1 along the axis, d = ary.shape[axis] / n,
\* and slice(None, None, 1) along every other axis; one ary[...] is taken per
\* piece; the pieces are equal-sized, disjoint, ascending and cover the axis.
C3_SplitPieces ==
    (/\ Called
     /\ api_call.fn = "split"
     /\ api_call.sections_is_int
     /\ api_call.sections >= 1
     /\ Divides(api_call.sections, PyIndex(api_call.shape, api_call.axis)))
    =>
    LET n == api_call.sections
        p == AxisPos(api_call.shape, api_call.axis)
        dim == api_call.shape[p]
        d == dim \div n
        pieces == Last(api_trace).arg
        taken == GetItems(api_trace)
    IN  /\ Returned(api_trace)
        /\ Len(pieces) = n
        /\ Len(taken) = n
        /\ \A i \in 1..n :
              /\ taken[i].arg = pieces[i]
              /\ Len(pieces[i]) = Len(api_call.shape)
              /\ pieces[i][p] = slice(IntBound((i - 1) * d), IntBound(i * d), 1)
              /\ \A a \in DOMAIN api_call.shape :
                    a # p => pieces[i][a] = slice(NoneBound, NoneBound, 1)
              /\ Cardinality(SliceIndices(pieces[i][p], dim)) = d
        /\ \A i, j \in 1..n :
              i < j => \A x \in SliceIndices(pieces[i][p], dim),
                          y \in SliceIndices(pieces[j][p], dim) : x < y
        /\ UNION {SliceIndices(pieces[i][p], dim) : i \in 1..n} = 0..(dim - 1)

\* C3 witness: a two-axis array split in two along its second axis.
C3_Witness ==
    /\ Called
    /\ api_call.fn = "split"
    /\ api_call.sections_is_int
    /\ api_call.sections = 2
    /\ api_call.shape = <<3, 4>>
    /\ api_call.axis = 1
    /\ Returned(api_trace)
    /\ Len(Last(api_trace).arg) = 2

\* C4: split(ary, n, axis) raises ValueError whenever ary.shape[axis] is not
\* divisible by n, and it raises before any slice of the array is taken.
C4_SplitNotDivisible ==
    (/\ Called
     /\ api_call.fn = "split"
     /\ api_call.sections_is_int
     /\ ~Divides(api_call.sections, PyIndex(api_call.shape, api_call.axis)))
    => api_trace = Raise("ValueError")

\* C5: concatenate(arrays, axis) makes one application call and passes it, as
\* the single on-axis block size, a size that occurs among the inputs'
\* block_shape[axis] and than which no other size occurs strictly more often.
C5_ConcatMode ==
    (Called /\ api_call.fn = "concatenate" /\ ~api_call.out)
    =>
    LET p == AxisPos(<<1, 1>>, api_call.axis)
        sizes == [i \in DOMAIN api_call.block_shapes |-> api_call.block_shapes[i][p]]
        occurs(v) == Cardinality({i \in DOMAIN sizes : sizes[i] = v})
        ops == AppOps(api_trace)
    IN  /\ Returned(api_trace)
        /\ Len(ops) = 1
        /\ ops[1].name = "concatenate"
        /\ ops[1].arg[1] = api_call.axis
        /\ occurs(ops[1].arg[2]) >= 1
        /\ \A v \in 1..MaxBlock : occurs(v) <= occurs(ops[1].arg[2])

\* C5 witness: three arrays, the first with a block size the other two do
\* not share.
C5_Witness ==
    /\ Called
    /\ api_call.fn = "concatenate"
    /\ api_call.axis = 1
    /\ api_call.block_shapes = <<<<1, 1>>, <<1, 2>>, <<1, 2>>>>
    /\ AppOps(api_trace) = <<App("concatenate", <<1, 2>>)>>

TryFailures == {"app.loadtxt", "compute_block_shape", "reshape"}
HandlerFailures == {"np.loadtxt", "compute_block_shape_local", "app.array"}

\* C6 (as stated): if the parallel load, the block-shape computation or the
\* re-blocking raises, loadtxt parses the file locally and returns the array
\* built from the local result; only a failure of the local parse itself
\* reaches the caller.
C6_OnlyLocalParseFailureReaches ==
    (Called /\ api_call.fn = "loadtxt" /\ api_call.fails \cap TryFailures # {})
    =>
    IF "np.loadtxt" \in api_call.fails
    THEN Last(api_trace) = Ev("raise", "Exception", <<"np.loadtxt">>)
    ELSE Last(api_trace) = Ev("return", "app.array", <<>>)

\* C6 (amended): if the parallel load, the block-shape computation or the
\* re-blocking raises an Exception, loadtxt does not propagate it: it warns,
\* parses the file locally, asks compute_block_shape for the block shape and
\* returns app.array of the local result.  A failure of the local parse, or of
\* the compute_block_shape or app.array call after it, reaches the caller.
\* Without a failure in the try the re-blocked parallel result is returned and
\* nothing is parsed locally.
C6_LoadtxtFallback ==
    (Called /\ api_call.fn = "loadtxt")
    =>
    LET local == \E i \in DOMAIN api_trace : api_trace[i] = Ev("local", "np.loadtxt", <<>>)
        ops == AppOps(api_trace)
    IN  /\ Raised(api_trace) =>
              /\ Last(api_trace).arg[1] \in HandlerFailures \cap api_call.fails
              /\ Last(api_trace).arg[1] \notin TryFailures
        /\ (api_call.fails \cap TryFailures # {}) =>
              /\ local
              /\ (api_call.fails \cap HandlerFailures = {}) =>
                    /\ Last(api_trace) = Ev("return", "app.array", <<>>)
                    /\ Len(ops) >= 3
                    /\ ops[Len(ops) - 1].name = "compute_block_shape"
                    /\ ops[Len(ops)].name = "array"
              /\ (api_call.fails \cap HandlerFailures # {}) => Raised(api_trace)
        /\ (api_call.fails \cap TryFailures = {}) =>
              /\ ~local
              /\ Last(api_trace) = Ev("return", "ba.reshape", <<>>)

\* C6 witness: the re-blocking failed, the local parse and what follows it
\* succeeded.
C6_Witness ==
    /\ Called
    /\ api_call.fn = "loadtxt"
    /\ api_call.fails = {"reshape"}
    /\ Last(api_trace) = Ev("return", "app.array", <<>>)

\* The unsupported-feature requests of C7.  order=None is the absent
\* argument, which array() takes as the default order, not a request.
Unsupported(c) ==
    \/ c.fn \in {"min", "max", "sum"} /\ (c.out \/ c.initial \/ c.where)
    \/ c.fn \in {"mean", "var", "std", "all", "argmin", "argmax", "concatenate"} /\ c.out
    \/ c.fn = "array" /\ (c.order \notin {"K", "None"} \/ c.ndmin # 0 \/ c.subok)
    \/ c.fn \in {"eye", "diag"} /\ c.k # 0
    \/ c.fn = "arange" /\ c.step # 1
    \/ c.fn = "split" /\ ~c.sections_is_int
    \/ c.fn = "allclose" /\ c.equal_nan

\* C7: every unsupported-feature request is rejected before any application
\* operation is called: the wrapper raises, and no operation of the
\* application object was invoked.
C7_RejectedBeforeDispatch ==
    (Called /\ Unsupported(api_call))
    => (Raised(api_trace) /\ AppOps(api_trace) = <<>>)

\* C7 witness: diag with k = 1, rejected after _instance() and before app.diag.
C7_Witness ==
    /\ api_call.fn = "diag"
    /\ api_call.k = 1
    /\ api_trace = <<InstanceCall>> \o Raise("NotImplementedError")

\* The task h and every task it depends on, directly or through others.
RECURSIVE AncSelf(_)
AncSelf(h) == {h} \cup UNION {AncSelf(d) : d \in tasks[h].deps}

\* C8: if a block's kernel invocation fails, get on any handle that depends on
\* it, directly or through later tasks, raises the originating error (the
\* failure of a kernel that ran); get on a handle with no failing task among
\* what it depends on succeeds; no kernel runs twice, and a task is submitted
\* whatever the state of its arguments (the failure shows at get only).
C8_FailureIsolation ==
    /\ \A h \in DOMAIN tasks : tasks[h].runs <= 1
    /\ last_get.handle # 0 =>
          LET culprits == {t \in AncSelf(last_get.handle) : tasks[t].fails}
          IN  IF culprits = {}
              THEN last_get.outcome = "value"
              ELSE /\ last_get.outcome = "raise"
                   /\ last_get.error \in culprits
                   /\ tasks[last_get.error].state = "failed"
                   /\ tasks[last_get.error].runs = 1

\* C8 witness: task 1 failed, task 2 takes its handle, task 3 takes task 2's;
\* get on task 3 raised the failure of task 1.
C8_Witness ==
    /\ Len(tasks) = 3
    /\ tasks[1].fails /\ ~tasks[2].fails /\ ~tasks[3].fails
    /\ tasks[2].deps = {1}
    /\ tasks[3].deps = {2}
    /\ last_get = [handle |-> 3, outcome |-> "raise", error |-> 1]

\* Blocks placed on device d.
PlacedOn(d) == Cardinality({i \in DOMAIN grid_placed : grid_placed[i] = d})
AllPlaced == Len(grid_placed) = Product(grid.grid_shape)
Balanced ==
    \A d1, d2 \in 0..(grid.ndevices - 1) : PlacedOn(d1) - PlacedOn(d2) <= 1
SameDeviceAgain ==
    grid_again # NoAgain => grid_again.device = grid_placed[grid_again.index + 1]

FlattensContiguously ==
    \A a \in 2..Len(grid.grid_shape) :
        grid.grid_shape[a] = cluster_for(grid.cluster_shape, Len(grid.grid_shape))[a]

DenseSum(in) ==
    LET n == IF in.axis = 0 THEN in.shape[2] ELSE in.shape[1]
        m == IF in.axis = 0 THEN in.shape[1] ELSE in.shape[2]
    IN  [k \in 1..n |->
            SumSeq([x \in 1..m |->
                      IF in.axis = 0 THEN Value(in.pattern, x - 1, k - 1)
                      ELSE Value(in.pattern, k - 1, x - 1)])]

\* C10: the result of sum along an axis does not depend on the block shape:
\* for every block shape it is the dense sum, and for the 6 x 6 all-ones array
\* over axis 0 it is 6 in each of the 6 positions.
C10_SumBlockShapeInvariant ==
    sum_out # <<>> =>
        /\ sum_out = DenseSum(sum_in)
        /\ (sum_in.shape = <<6, 6>> /\ sum_in.pattern = "ones" /\ sum_in.axis = 0)
              => sum_out = <<6, 6, 6, 6, 6, 6>>

\* C10 witness: the 6 x 6 all-ones array in (2, 2) blocks summed over axis 0.
C10_Witness ==
    /\ sum_in = [shape |-> <<6, 6>>, block_shape |-> <<2, 2>>, axis |-> 0,
                 pattern |-> "ones"]
    /\ sum_out = <<6, 6, 6, 6, 6, 6>>

\* The element (i, j) (0-based) of an array held in blocks of block_shape.
BlockedElem(blocks, block_shape, i, j) ==
    blocks[(i \div block_shape[1]) + 1][(j \div block_shape[2]) + 1]
          [(i % block_shape[1]) + 1][(j % block_shape[2]) + 1]

\* C11: matmul(identity(n), X) equals X element for element, for every block
\* shape of the identity and of X whose blocks agree along the contracted
\* axis; the result has n rows of blocks cut as the identity's rows and
\* columns cut as X's columns.
C11_MatmulIdentity ==
    (mm_out # NoResult /\ contraction_aligned(mm_left(mm_in), mm_right(mm_in)))
    =>
    /\ mm_out.status = "done"
    /\ Len(mm_out.blocks) = CeilDiv(mm_in.n, mm_in.a_block[1])
    /\ \A bi \in DOMAIN mm_out.blocks :
          Len(mm_out.blocks[bi]) = CeilDiv(mm_in.cols, mm_in.x_block[2])
    /\ \A i \in 0..(mm_in.n - 1), j \in 0..(mm_in.cols - 1) :
          BlockedElem(mm_out.blocks, <<mm_in.a_block[1], mm_in.x_block[2]>>, i, j)
              = Value(mm_in.pattern, i, j)

\* C11 witness: identity(4) in (2, 2) blocks times a 4 x 2 array in (2, 1)
\* blocks, two contraction blocks per output block.
C11_Witness ==
    /\ mm_in = [n |-> 4, a_block |-> <<2, 2>>, cols |-> 2, x_block |-> <<2, 1>>,
                pattern |-> "index"]
    /\ mm_out.status = "done"
    /\ Len(mm_partials[1][1]) = 2
    /\ BlockedElem(mm_out.blocks, <<2, 1>>, 3, 1) = Value("index", 3, 1)

\* The element of an aligned operand that broadcasting pairs with the output
\* element (i, j): index 0 on an axis where the operand has size 1.
DenseOperand(arr, i, j) ==
    Elem(arr.pattern, IF arr.shape[1] = 1 THEN 0 ELSE i, IF arr.shape[2] = 1 THEN 0 ELSE j)

\* C12: add(A, B) equals the dense broadcast sum at every element, the output
\* shape is the broadcast of both shapes, and along an axis on which an
\* operand is broadcast its single block serves every output block; for A of
\* shape (4,4) in (2,2) blocks and B of shape (4,) in (2,) blocks,
\* result[i][j] = A[i][j] + B[j].
C12_AddBroadcast ==
    LET a == bop_left(bop_in)
        b == bop_right(bop_in)
    IN  (bop_out # NoBopResult /\ broadcast_compatible(a.shape, b.shape))
        =>
        /\ bop_out.status = "done"
        /\ bop_out.shape = broadcast_shape(a.shape, b.shape)
        /\ \A i \in 0..(bop_out.shape[1] - 1), j \in 0..(bop_out.shape[2] - 1) :
              BlockedElem(bop_out.blocks, bop_out.block_shape, i, j)
                  = DenseOperand(a, i, j) + DenseOperand(b, i, j)
        /\ \A bi \in DOMAIN bop_out.sources : \A bj \in DOMAIN bop_out.sources[bi] :
              \A x \in 1..2 :
                  /\ b.shape[x] = 1 => bop_out.sources[bi][bj].right[x] = 0
                  /\ a.shape[x] = 1 => bop_out.sources[bi][bj].left[x] = 0
        /\ (bop_in.a_shape = <<4, 4>> /\ bop_in.a_block = <<2, 2>>
              /\ bop_in.b_shape = <<4>> /\ bop_in.b_block = <<2>>)
             => /\ bop_out.shape = <<4, 4>>
                /\ \A i, j \in 0..3 :
                      BlockedElem(bop_out.blocks, <<2, 2>>, i, j)
                          = Value(bop_in.a_pattern, i, j) + Value(bop_in.b_pattern, 0, j)

\* C12 witness: A of shape (4,4) in (2,2) blocks plus B of shape (4,) in (2,)
\* blocks; the output block (1, 0) was computed from B's block 0.
C12_Witness ==
    /\ bop_in.a_shape = <<4, 4>> /\ bop_in.a_block = <<2, 2>>
    /\ bop_in.b_shape = <<4>> /\ bop_in.b_block = <<2>>
    /\ bop_in.a_pattern = "mixed" /\ bop_in.b_pattern = "index"
    /\ bop_out.status = "done"
    /\ bop_out.sources[2][1].right = <<0, 0>>
    /\ bop_out.sources[2][2].right = <<0, 1>>

\* C14: create() never completes twice without a destroy() in between: at
\* most one substrate session is initialized (init() called, shutdown() not)
\* at any time, and while an application is stored it is that application's.
C14_AtMostOneSession ==
    /\ Cardinality(running) <= 1
    /\ is_initialized => running = {_instance.id}

\* C15: instance() initializes lazily and is idempotent.  Only a call of
\* instance() (by the user or by a wrapper) makes the manager initialized; a
\* call while an application is stored returns that object and constructs
\* nothing, starts no session, reads no settings and invokes no hook; a call
\* while none is stored constructs one on a new session, or raises.
C15_InstanceIdempotent ==
    /\ [][(~is_initialized /\ is_initialized') => (Instance \/ Wrapper)]_vars
    /\ [][(pc = "idle" /\ is_initialized /\ (Instance \/ Wrapper)) =>
            /\ _instance' = _instance
            /\ nsessions' = nsessions
            /\ running' = running
            /\ hook_log' = hook_log
            /\ ncalls' = ncalls
            /\ pc' = "idle"
            /\ ~settings_read']_vars
    /\ [][(pc = "idle" /\ is_initialized /\ Instance) =>
            api_trace' = <<InstanceCall>> \o Return("_instance", <<>>)]_vars
    /\ [][(pc = "idle" /\ ~is_initialized /\ Instance) =>
            \/ /\ is_initialized'
               /\ nsessions' = nsessions + 1
               /\ _instance'.id = nsessions'
               /\ hook_log' = <<>>
            \/ /\ ~is_initialized'
               /\ Raised(api_trace')]_vars

\* C15 witness: instance() was called again after a wrapper had dispatched an
\* operation on the stored application, whose hooks had run.
C15_Witness ==
    /\ is_initialized
    /\ pc = "idle"
    /\ api_call = InstanceFn
    /\ api_trace = <<InstanceCall>> \o Return("_instance", <<>>)
    /\ dispatch.app.id = _instance.id
    /\ Len(hook_log) >= 1

\* C16: when instance() has constructed the application, all hooks registered
\* before that point have been invoked, each with the new instance as
\* argument, in the order of their registration, and every hook invocation
\* is made with a stored instance (is_initialized() is true inside it).
C16_AllHooksInOrder ==
    /\ \A k \in DOMAIN hook_log : hook_log[k].arg # None.id
    /\ (is_initialized /\ pc = "idle") =>
          LET pre == SelectSeq(hook_log, LAMBDA e : e.entry <= hooks_at_create)
          IN  /\ Len(pre) = hooks_at_create
              /\ \A k \in DOMAIN pre : pre[k] = [entry |-> k, arg |-> _instance.id]

\* The stored application was constructed after a destroy(): a session
\* started before its own has been shut down.
CreatedAfterDestroy ==
    is_initialized /\ \E sid \in 1..(_instance.id - 1) : sid \notin running

\* C17: a registered hook is retained and invoked: a hook registered while an
\* application is stored has been invoked with it; every hook of the list has
\* been invoked on an instance created after a later destroy(); registering
\* while nothing was ever created invokes nothing and creates nothing.
C17_HookRetainedAndInvoked ==
    /\ (is_initialized /\ pc = "idle") =>
          \A e \in DOMAIN _call_on_create :
              e > hooks_at_create =>
                  \E k \in DOMAIN hook_log :
                      hook_log[k] = [entry |-> e, arg |-> _instance.id]
    /\ (CreatedAfterDestroy /\ pc = "idle") =>
          \A e \in DOMAIN _call_on_create :
              \E k \in DOMAIN hook_log : hook_log[k] = [entry |-> e, arg |-> _instance.id]
    /\ nsessions = 0 => (~is_initialized /\ hook_log = <<>>)

\* C18: destroy() on a stored application calls shutdown on its substrate
\* once, then ComputeManager.destroy(), and leaves is_initialized() false;
\* without a stored application it calls neither; it never changes the hook
\* list; no other operation shuts a session down; and the next instance()
\* builds an application on a session of its own, started by a new init().
C18_Destroy ==
    /\ [][(pc = "idle" /\ Destroy) =>
            /\ ~is_initialized'
            /\ _call_on_create' = _call_on_create
            /\ nsessions' = nsessions
            /\ IF is_initialized
               THEN /\ api_trace' = <<Ev("method", "system.shutdown", <<_instance.id>>),
                                      Ev("local", "ComputeManager.destroy", <<>>)>>
                                    \o Return("None", <<>>)
                    /\ running' = running \ {_instance.id}
               ELSE /\ api_trace' = Return("None", <<>>)
                    /\ running' = running]_vars
    /\ [][(\E sid \in running : sid \notin running') => Destroy]_vars
    /\ [][(~is_initialized /\ is_initialized') =>
            /\ _instance'.id = nsessions + 1
            /\ nsessions' = nsessions + 1
            /\ running' = running \cup {_instance'.id}
            /\ _call_on_create' = _call_on_create]_vars

\* C18 witness: the first application was destroyed (its session shut down)
\* and instance() has built the second one, on which the retained hooks ran.
C18_Witness ==
    /\ is_initialized
    /\ pc = "idle"
    /\ _instance.id = 2
    /\ running = {2}
    /\ hooks_at_create >= 1
    /\ Len(hook_log) >= 1

Unrecognized(s) ==
    s.system_name \notin SystemNames \/ s.device_grid_name \notin DeviceGridNames

\* C19: with settings that name an unrecognized system or device grid,
\* instance() raises (the exception of create()), is_initialized() stays
\* false and no hook is invoked; every later instance() call runs create()
\* again, and constructs the application once the settings are recognized.
C19_BadSettingsRaise ==
    /\ [][(pc = "idle" /\ ~is_initialized /\ Unrecognized(settings) /\ Instance) =>
            /\ api_trace' = <<InstanceCall>> \o Raise("Exception")
            /\ settings_read'
            /\ ~is_initialized'
            /\ pc' = "idle"
            /\ hook_log' = hook_log
            /\ ncalls' = ncalls]_vars
    /\ [][(pc = "idle" /\ ~is_initialized /\ ~Unrecognized(settings) /\ Instance) =>
            (settings_read' /\ is_initialized')]_vars

\* C19 witness: hooks are registered, the settings name an unknown system,
\* instance() has raised, nothing is stored and no hook has run.
C19_Witness ==
    /\ ~is_initialized
    /\ pc = "idle"
    /\ settings.system_name \notin SystemNames
    /\ api_call = InstanceFn
    /\ api_trace = <<InstanceCall>> \o Raise("Exception")
    /\ settings_read
    /\ Len(_call_on_create) >= 1
    /\ hook_log = <<>>
    /\ nsessions = 0

\* C20: every generated elementwise wrapper makes exactly one call of the
\* application: a unary wrapper f(x) calls map_uop with op_name f and arr x, a
\* binary wrapper f(x1, x2) calls map_bop with op_name f, arr_1 x1 and arr_2
\* x2, in this order; out and where are handed over as given.
C20_ElementwiseDispatch ==
    (Called /\ api_call.fn \in UnaryNames \cup BinaryNames)
    =>
    LET ops == AppOps(api_trace)
    IN  /\ Len(ops) = 1
        /\ Len(api_trace) = 3
        /\ api_trace[1] = InstanceCall
        /\ api_trace[2] = ops[1]
        /\ Returned(api_trace)
        /\ api_call.fn \in UnaryNames =>
              /\ ops[1].name = "map_uop"
              /\ ops[1].arg = <<api_call.fn, api_call.x1, api_call.out_arg,
                                api_call.where_arg>>
        /\ api_call.fn \in BinaryNames =>
              /\ ops[1].name = "map_bop"
              /\ ops[1].arg = <<api_call.fn, api_call.x1, api_call.x2,
                                api_call.out_arg, api_call.where_arg>>

\* C20 witness: subtract(a, b, out=o, where=w), whose operands differ.
C20_Witness ==
    /\ api_call.fn = "subtract"
    /\ api_call.x1 = "a" /\ api_call.x2 = "b"
    /\ api_call.out_arg = "o" /\ api_call.where_arg = "w"
    /\ AppOps(api_trace) = <<App("map_bop", <<"subtract", "a", "b", "o", "w">>)>>

\* C21: a substrate session on which create() called init() and on which
\* shutdown() has not been called exists only while is_initialized() is true,
\* and it is the session of the stored application.
C21_NoOrphanSession ==
    \A sid \in running : is_initialized /\ sid = _instance.id

\* C22: whenever is_initialized() is true and no instance() or call_on_create
\* call is in progress, every hook registered so far has been invoked with
\* the current instance.
C22_AllHooksInvoked ==
    (is_initialized /\ pc = "idle") =>
        \A e \in DOMAIN _call_on_create :
            \E k \in DOMAIN hook_log : hook_log[k] = [entry |-> e, arg |-> _instance.id]

\* C23: a wrapper call rejected for an unsupported argument leaves the
\* lifecycle state as it was: is_initialized() keeps its value, no session is
\* started, no hook runs and no hook loop is begun.
C23_RejectedLeavesLifecycle ==
    [][(pc = "idle" /\ Wrapper /\ Unsupported(api_call')) =>
          /\ _instance' = _instance
          /\ nsessions' = nsessions
          /\ running' = running
          /\ hook_log' = hook_log
          /\ pc' = "idle"]_vars

\* C24: for every integer n, split(ary, n, axis) either raises or returns
\* exactly n pieces that cover the axis.
C24_SplitRaisesOrTiles ==
    (Called /\ api_call.fn = "split" /\ api_call.sections_is_int)
    =>
    \/ Raised(api_trace)
    \/ LET p == AxisPos(api_call.shape, api_call.axis)
           dim == api_call.shape[p]
           pieces == Last(api_trace).arg
       IN  /\ Returned(api_trace)
           /\ Len(pieces) = api_call.sections
           /\ UNION {SliceIndices(pieces[i][p], dim) : i \in DOMAIN pieces} = 0..(dim - 1)

\* The same call made of the other of argmin and argmax.
OtherArgop(c) ==
    IF c.fn = "argmin" THEN argmax([c EXCEPT !.fn = "argmax"])
    ELSE argmin([c EXCEPT !.fn = "argmin"])

\* C25 (as stated): argmin(a, axis, out) is rejected if and only if
\* argmax(a, axis, out) is rejected, and when accepted each dispatches one
\* argop call with its own op name, the same array and the same axis.
C25_SameValidation ==
    (Called /\ api_call.fn \in {"argmin", "argmax"})
    =>
    /\ Raised(api_trace) <=> Raised(OtherArgop(api_call))
    /\ ~Raised(api_trace) =>
          AppOps(api_trace) =
              <<App("argop", <<api_call.fn, api_call.shape, api_call.axis>>)>>

\* C25 (amended): both reject a call that gives out; argmax also rejects every
\* array of more than one axis, which argmin accepts; so for arrays of one
\* axis one is rejected if and only if the other is.  An accepted call
\* dispatches one argop call with its own op name, the array and the axis,
\* and a rejected call dispatches nothing.
C25_ArgopValidation ==
    (Called /\ api_call.fn \in {"argmin", "argmax"})
    =>
    /\ Raised(api_trace) <=>
          (api_call.out \/ (api_call.fn = "argmax" /\ Len(api_call.shape) > 1))
    /\ Len(api_call.shape) = 1 =>
          (Raised(api_trace) <=> Raised(OtherArgop(api_call)))
    /\ Raised(api_trace) => AppOps(api_trace) = <<>>
    /\ ~Raised(api_trace) =>
          AppOps(api_trace) =
              <<App("argop", <<api_call.fn, api_call.shape, api_call.axis>>)>>

\* C25 witness: argmin of a two-axis array without out was dispatched, the
\* call argmax rejects.
C25_Witness ==
    /\ api_call.fn = "argmin"
    /\ api_call.shape = <<2, 2>>
    /\ ~api_call.out
    /\ AppOps(api_trace) = <<App("argop", <<"argmin", <<2, 2>>, 0>>)>>
    /\ Raised(OtherArgop(api_call))

====
